---- MODULE Spec2Model ----
(***************************************************************************)
(* mecademic_pydriver: the message receiver (MessageReceiver.py), the      *)
(* message log (MecademicLog.py), the parsing helpers (parsingLib.py) and  *)
(* the command dispatch of RobotController.py, as state machines.          *)
(*                                                                         *)
(* A byte is a one-character string; NUL stands for the "\x00" terminator. *)
(* A message (frame) and a code are sequences of characters; an event of   *)
(* the log is the tuple (code, payload) of the source, kept as a record    *)
(* that also carries the position at which it was appended (id), which the *)
(* code never reads: the tuple comparisons of the code are SameTuple.      *)
(***************************************************************************)
EXTENDS Integers, Sequences, FiniteSets, TLC

VARIABLES
    \* ---- the peer and the socket
    written,     \* the frames the peer has written so far, in order
    wire,        \* bytes written by the peer and not yet readable
    sock,        \* bytes readable on the socket and not yet read
    closed,      \* the peer has shut the connection down
    \* ---- MessageReceiver
    buffer,      \* MessageReceiver.buffer
    messages,    \* MessageReceiver.messages
    waiting,     \* "no", or the select the caller is blocked in: "forever" | "bounded"
    waitT,       \* the timeout argument of the current (or last) wait
    returned,    \* every frame get_last_messages has returned, in order
    taken,       \* how many frames have left the queue so far (returned or discarded)
    overflowed,  \* some get_last_messages call found more frames than it was asked for
    \* ---- MecademicLog
    log,         \* MecademicLog.log (a deque of maxlen LogSize), oldest first
    nappended,   \* how many events have been appended to the log so far
    \* ---- RobotController
    sent,        \* the commands transmitted on the socket, terminator included
    call,        \* the last dispatch: its parameters, the peer's replies, its outcome
    \* ---- the last operation: its name, its arguments, the log before it, what it gave
    last

vars == <<written, wire, sock, closed, buffer, messages, waiting, waitT,
          returned, taken, overflowed, log, nappended, sent, call, last>>

recvVars == <<written, wire, sock, closed, buffer, messages, waiting, waitT,
              returned, taken, overflowed>>
logVars == <<log, nappended>>
dispVars == <<sent, call>>

-----------------------------------------------------------------------------
(* Bounds of the model *)

MaxFrames == 2
MaxNum == 2
MaxAppended == 4
LogSize == 3
MaxBatch == 2
MaxSent == 1
MaxArgs == 3
MaxBurst == 11

(* Program constants *)

Bufsize == 4096

-----------------------------------------------------------------------------
(* Characters, frames *)

NUL == "NUL"

None == [none |-> TRUE]

\* Python's empty list, the result of check_response for no codes
EmptyList == [empty |-> TRUE]

\* the stand-in of Python's None among the timeouts, which are numbers
NoneT == -1

Timeouts == {NoneT, 0, 1}

Take(s, n) == SubSeq(s, 1, IF n < Len(s) THEN n ELSE Len(s))

Drop(s, n) == SubSeq(s, (IF n < Len(s) THEN n ELSE Len(s)) + 1, Len(s))

RECURSIVE Reverse(_)
Reverse(s) == IF s = <<>> THEN <<>> ELSE Append(Reverse(Tail(s)), Head(s))

RECURSIVE Join(_)
\* the bytes of a sequence of frames, each followed by the terminator
Join(fs) == IF fs = <<>> THEN <<>> ELSE Head(fs) \o <<NUL>> \o Join(Tail(fs))

\* well-formed frames [code][payload]
WellFormed == { <<"[", "1", "]", "[", "]">>, <<"[", "2", "]", "[", "a", "]">> }

-----------------------------------------------------------------------------
(* MessageReceiver *)

\* select.select([socket], [], [], 0): data to read, or the end of the stream
bytes_available == sock # <<>> \/ closed

\* str.partition(message_terminator): the index of the first terminator, 0 if none
FirstTerminator(s) ==
    IF \E i \in 1..Len(s) : s[i] = NUL
    THEN CHOOSE i \in 1..Len(s) : s[i] = NUL /\ \A j \in 1..(i-1) : s[j] # NUL
    ELSE 0

RECURSIVE parse_buffer_drop(_, _)
\* parse_buffer without the re-append of line 101: the partial frame is lost
parse_buffer_drop(buf, msgs) ==
    IF Len(buf) = 0 THEN [buffer |-> buf, messages |-> msgs]
    ELSE LET i == FirstTerminator(buf)
             msg == IF i = 0 THEN buf ELSE SubSeq(buf, 1, i - 1)
             rest == IF i = 0 THEN <<>> ELSE SubSeq(buf, i + 1, Len(buf))
         IN IF i = 0
            THEN [buffer |-> rest, messages |-> msgs]
            ELSE parse_buffer_drop(rest, Append(msgs, msg))

RECURSIVE parse_buffer(_, _)
\* msg, ignored, buffer = buffer.partition(terminator); no terminator: buffer = msg + buffer
parse_buffer(buf, msgs) ==
    IF Len(buf) = 0 THEN [buffer |-> buf, messages |-> msgs]
    ELSE LET i == FirstTerminator(buf)
             msg == IF i = 0 THEN buf ELSE SubSeq(buf, 1, i - 1)
             rest == IF i = 0 THEN <<>> ELSE SubSeq(buf, i + 1, Len(buf))
         IN IF i = 0
            THEN [buffer |-> msg \o rest, messages |-> msgs]
            ELSE parse_buffer(rest, Append(msgs, msg))

\* __recv_internal that assigns the bytes read to the buffer instead of
\* appending them
recv_internal_overwrite(buf, sk, bufsize) ==
    LET local_buffer == Take(sk, bufsize)
    IN IF Len(local_buffer) = 0
       THEN [buffer |-> buf, sock |-> sk, fault |-> "ConnectionError"]
       ELSE [buffer |-> local_buffer, sock |-> Drop(sk, bufsize), fault |-> "none"]

\* __recv_internal: one socket.recv(bufsize); a zero-length read raises
recv_internal(buf, sk, bufsize) ==
    LET local_buffer == Take(sk, bufsize)
    IN IF Len(local_buffer) = 0
       THEN [buffer |-> buf, sock |-> sk, fault |-> "ConnectionError"]
       ELSE [buffer |-> buf \o local_buffer, sock |-> Drop(sk, bufsize),
             fault |-> "none"]

RECURSIVE recv_loop(_, _, _)
\* while(self.bytes_available()): self.__recv_internal(bufsize)
recv_loop(buf, sk, bufsize) ==
    IF sk # <<>> \/ closed
    THEN LET r == recv_internal(buf, sk, bufsize)
         IN IF r.fault # "none" THEN r ELSE recv_loop(r.buffer, r.sock, bufsize)
    ELSE [buffer |-> buf, sock |-> sk, fault |-> "none"]

\* recv_all: the loop, then parse_buffer (not reached when the loop raises)
recv_all(buf, msgs, sk, bufsize) ==
    LET r == recv_loop(buf, sk, bufsize)
    IN IF r.fault # "none"
       THEN [buffer |-> r.buffer, messages |-> msgs, sock |-> r.sock, fault |-> r.fault]
       ELSE LET p == parse_buffer(r.buffer, msgs)
            IN [buffer |-> p.buffer, messages |-> p.messages, sock |-> r.sock, fault |-> "none"]

\* recv that takes a zero-length read for "nothing new"
recv_quiet(buf, msgs, sk, bufsize) ==
    IF sk = <<>>
    THEN [buffer |-> buf, messages |-> msgs, sock |-> sk, fault |-> "none"]
    ELSE LET p == parse_buffer(buf \o Take(sk, bufsize), msgs)
         IN [buffer |-> p.buffer, messages |-> p.messages, sock |-> Drop(sk, bufsize),
             fault |-> "none"]

\* recv: at most one socket.recv, then parse_buffer
recv(buf, msgs, sk, bufsize) ==
    IF ~(sk # <<>> \/ closed)
    THEN [buffer |-> buf, messages |-> msgs, sock |-> sk, fault |-> "none"]
    ELSE LET r == recv_internal(buf, sk, bufsize)
         IN IF r.fault # "none"
            THEN [buffer |-> r.buffer, messages |-> msgs, sock |-> r.sock, fault |-> r.fault]
            ELSE LET p == parse_buffer(r.buffer, msgs)
                 IN [buffer |-> p.buffer, messages |-> p.messages, sock |-> r.sock,
                     fault |-> "none"]

RECURSIVE PopLast(_, _, _)
\* for _ in range(0, num_messages): messages.append(self.messages.pop(-1))
PopLast(k, msgs, acc) ==
    IF k = 0 \/ msgs = <<>> THEN [messages |-> msgs, popped |-> acc]
    ELSE PopLast(k - 1, SubSeq(msgs, 1, Len(msgs) - 1), Append(acc, msgs[Len(msgs)]))

\* get_last_messages that leaves the older messages in the queue
get_last_messages_keep_older(num, buf, msgs, sk) ==
    LET r == recv_all(buf, msgs, sk, Bufsize)
    IN IF r.fault # "none"
       THEN [buffer |-> r.buffer, messages |-> r.messages, sock |-> r.sock,
             fault |-> r.fault, out |-> <<>>, queued |-> Len(r.messages)]
       ELSE LET p == PopLast(num, r.messages, <<>>)
            IN [buffer |-> r.buffer, messages |-> p.messages, sock |-> r.sock,
                fault |-> "none", out |-> Reverse(p.popped), queued |-> Len(r.messages)]

\* get_last_messages(num_messages, recv_all=True, discard_previous_msgs=True)
get_last_messages(num, buf, msgs, sk) ==
    LET r == recv_all(buf, msgs, sk, Bufsize)
    IN IF r.fault # "none"
       THEN [buffer |-> r.buffer, messages |-> r.messages, sock |-> r.sock,
             fault |-> r.fault, out |-> <<>>, queued |-> Len(r.messages)]
       ELSE LET p == PopLast(num, r.messages, <<>>)
            IN [buffer |-> r.buffer, messages |-> <<>>, sock |-> r.sock,
                fault |-> "none", out |-> Reverse(p.popped), queued |-> Len(r.messages)]

\* if timeout: select(..., timeout) else: select(...)
wait_select(timeout) ==
    IF timeout # NoneT /\ timeout # 0 THEN "bounded" ELSE "forever"

-----------------------------------------------------------------------------
(* MecademicLog *)

c1 == <<"1">>
c1005 == <<"1", "0", "0", "5">>
c1013 == <<"1", "0", "1", "3">>
c2000 == <<"2", "0", "0", "0">>
c2007 == <<"2", "0", "0", "7">>

\* a code of the error class: its first character is 1
IsErrorClass(code) == Len(code) > 0 /\ code[1] = "1"

Event(code, payload, id) == [code |-> code, payload |-> payload, id |-> id]

\* equality of the (code, payload) tuples of the source
SameTuple(a, b) == a.code = b.code /\ a.payload = b.payload

\* deque.extend that drops the newest entries once the deque is full
deque_extend_keep_oldest(lg, batch) ==
    LET all == lg \o batch
    IN IF Len(all) > LogSize THEN SubSeq(all, 1, LogSize) ELSE all

\* deque.extend on a deque of maxlen LogSize: the oldest entries fall out
deque_extend(lg, batch) ==
    LET all == lg \o batch
    IN IF Len(all) > LogSize THEN SubSeq(all, Len(all) - LogSize + 1, Len(all)) ELSE all

\* deque.remove(message): the first entry equal to message goes
deque_remove(lg, m) ==
    IF \E i \in 1..Len(lg) : SameTuple(lg[i], m)
    THEN LET i == CHOOSE i \in 1..Len(lg) :
                      SameTuple(lg[i], m) /\ \A j \in 1..(i-1) : ~SameTuple(lg[j], m)
         IN SubSeq(lg, 1, i - 1) \o SubSeq(lg, i + 1, Len(lg))
    ELSE lg

RECURSIVE remove_each(_, _)
\* for message in messages_to_remove: self.log.remove(message)
remove_each(lg, ms) ==
    IF ms = <<>> THEN lg ELSE remove_each(deque_remove(lg, Head(ms)), Tail(ms))

\* remove_all_code that stops after the first message with the code
remove_all_code_first(lg, code) ==
    LET HasCode(m) == m.code = code
    IN remove_each(lg, Take(SelectSeq(lg, HasCode), 1))

remove_all_code(lg, code) ==
    LET HasCode(m) == m.code = code
    IN remove_each(lg, SelectSeq(lg, HasCode))

\* for this_message in reversed(self.log): the first one with the code, None if none
find_last(lg, code) ==
    IF \E i \in 1..Len(lg) : lg[i].code = code
    THEN LET i == CHOOSE i \in 1..Len(lg) :
                      lg[i].code = code /\ \A j \in (i+1)..Len(lg) : lg[j].code # code
         IN lg[i]
    ELSE None

\* get_last_code_occurance(code, delete_others): without delete_others the log is
\* reversed, the message removed, and the log left as it is (line 102 names
\* self.log.reverse and does not call it)
get_last_code_occurance(lg, code, delete_others) ==
    LET message == find_last(lg, code)
    IN IF message = None THEN [log |-> lg, res |-> None]
       ELSE IF delete_others
            THEN [log |-> remove_all_code(lg, code), res |-> message]
            ELSE [log |-> deque_remove(Reverse(lg), message), res |-> message]

\* get_first_message: popleft
get_first_message(lg) ==
    IF lg # <<>> THEN [log |-> Tail(lg), res |-> Head(lg)] ELSE [log |-> lg, res |-> None]

\* get_last_message: pop
get_last_message(lg) ==
    IF lg # <<>> THEN [log |-> SubSeq(lg, 1, Len(lg) - 1), res |-> lg[Len(lg)]]
    ELSE [log |-> lg, res |-> None]

-----------------------------------------------------------------------------
(* The log checks of RobotController *)

\* handle_specific_error(code): raises when the code is in the log
handle_specific_error(lg, code) ==
    LET r == get_last_code_occurance(lg, code, TRUE)
    IN [log |-> r.log, res |-> r.res,
        fault |-> IF r.res # None THEN "SpecificError" ELSE "none"]

\* handle_errors(): looks the code "1" up, raises when it is in the log
handle_errors(lg) ==
    LET r == get_last_code_occurance(lg, c1, FALSE)
    IN [log |-> r.log, res |-> r.res,
        fault |-> IF r.res # None THEN "GenericError" ELSE "none"]

RECURSIVE check_response(_, _)
\* check_response(codes): [] for no codes, the first message found, or raises
check_response(lg, codes) ==
    IF codes = <<>> THEN [log |-> lg, res |-> EmptyList, fault |-> "none"]
    ELSE LET r == get_last_code_occurance(lg, Head(codes), TRUE)
         IN IF r.res # None THEN [log |-> r.log, res |-> r.res, fault |-> "none"]
            ELSE IF Tail(codes) = <<>>
                 THEN [log |-> r.log, res |-> None, fault |-> "ResponseNotFound"]
                 ELSE check_response(r.log, Tail(codes))

-----------------------------------------------------------------------------
(* MecademicLog.update_log and RobotController.send_command_handled.  The
   state a call works on is a record st of the log, the receiver, the socket
   and the commands sent; fault is "none" until something is raised. *)

c2001 == <<"2", "0", "0", "1">>

\* the frame [code][payload] of an event tuple
Frame(t) == <<"[">> \o t[1] \o <<"]", "[">> \o t[2] \o <<"]">>

RECURSIVE Frames(_)
Frames(ts) == IF ts = <<>> THEN <<>> ELSE <<Frame(Head(ts))>> \o Frames(Tail(ts))

\* message2codepayload(message) on a str: (code, payload), or ValueError
message2codepayload(message) ==
    LET n == Len(message)
        seps == { i \in 1..(n - 1) : message[i] = "]" /\ message[i + 1] = "[" }
    IN IF n = 0 \/ message[1] # "[" \/ message[n] # "]" \/ seps = {}
       THEN [fault |-> "ValueError", code |-> <<>>, payload |-> <<>>]
       ELSE LET e == CHOOSE i \in seps : \A j \in seps : i <= j
            IN [fault |-> "none", code |-> SubSeq(message, 2, e - 1),
                payload |-> SubSeq(message, e + 2, n - 1)]

\* update_log line 45: message2codepayload is handed the list get_last_messages
\* returned, and its first statement calls message.startswith: a list has no
\* startswith, whatever it holds
message2codepayload_of_list(ms) == [fault |-> "AttributeError", events |-> <<>>]

\* update_log lines 45-55 on the outcome g of get_last_messages
update_log_extend(st, g) ==
    LET rd == [st EXCEPT !.buffer = g.buffer, !.messages = g.messages, !.sock = g.sock]
        d == message2codepayload_of_list(g.out)
    IN IF g.fault # "none" THEN [rd EXCEPT !.fault = g.fault]
       ELSE IF d.fault # "none" THEN [rd EXCEPT !.fault = d.fault]
       ELSE [rd EXCEPT !.log = deque_extend(st.log, d.events)]

\* lines 51-53: the batches on_new_messages_received_cb is called with by an
\* update_log whose read gave g, for a log built with an observer
observer_calls(g) ==
    LET d == message2codepayload_of_list(g.out)
    IN IF g.fault # "none" \/ d.fault # "none" THEN <<>> ELSE <<d.events>>

\* update_log(wait_for_new_messages): the wait has no timeout; "blocked" when
\* nothing ever becomes readable
update_log(st, wait_for_new_messages) ==
    IF wait_for_new_messages /\ st.sock = <<>> /\ ~closed
    THEN [st EXCEPT !.fault = "blocked"]
    ELSE update_log_extend(st, get_last_messages(LogSize, st.buffer, st.messages, st.sock))

\* update_log(wait_for_new_messages=..., timeout=...): update_log takes no
\* timeout, the call raises before the method runs
update_log_timeout(st, wait_for_new_messages, timeout) ==
    [st EXCEPT !.fault = "TypeError"]

RECURSIVE remove_codes(_, _)
\* for code in codes: self.mecademic_log.remove_all_code(code)
remove_codes(lg, codes) ==
    IF codes = <<>> THEN lg ELSE remove_codes(remove_all_code(lg, Head(codes)), Tail(codes))

\* send_string_command: the command and its terminator go out; the peer's
\* reply to it becomes readable
send_string_command(st, cmd, reply) ==
    [st EXCEPT !.sent = Append(st.sent, <<cmd, NUL>>),
               !.sock = st.sock \o Join(Frames(reply))]

RECURSIVE handle_specific_errors(_, _)
\* for code in errors_code: self.handle_specific_error(code)
handle_specific_errors(lg, codes) ==
    IF codes = <<>> THEN [log |-> lg, res |-> None, fault |-> "none"]
    ELSE LET r == handle_specific_error(lg, Head(codes))
         IN IF r.fault # "none" THEN r ELSE handle_specific_errors(r.log, Tail(codes))

\* lines 202-210 and 218-226: the specific errors, the generic errors, the response
check_round(lg, cfg) ==
    LET e == handle_specific_errors(lg, cfg.errors_code)
    IN IF e.fault # "none" THEN e
       ELSE LET g == IF cfg.handle_all_errors THEN handle_errors(e.log)
                     ELSE [log |-> e.log, res |-> None, fault |-> "none"]
            IN IF g.fault # "none" THEN g ELSE check_response(g.log, cfg.responses_code)

\* the outcome r of a check round recorded in the call state
round_result(st, r, n) ==
    [st EXCEPT !.log = r.log, !.res = r.res, !.fault = r.fault, !.rounds = n]

\* lines 216-227: the second update_log, from its outcome s6 on
second_round(s6, cfg) ==
    IF s6.fault # "none" THEN [s6 EXCEPT !.rounds = 1]
    ELSE round_result(s6, check_round(s6.log, cfg), 2)

\* lines 209-215: the first check round r1 and the retry after ResponseNotFound
first_round(s4, r1, cfg, script) ==
    IF r1.fault # "ResponseNotFound" THEN round_result(s4, r1, 1)
    ELSE second_round(
             update_log_timeout(
                 [s4 EXCEPT !.log = r1.log, !.sock = s4.sock \o Join(Frames(script[2]))],
                 cfg.wait_for_new_messages, cfg.timeout),
             cfg)

\* lines 200-210: the first update_log after the command, from its outcome s4 on
first_wait(s4, cfg, script) ==
    IF s4.fault # "none" THEN s4
    ELSE first_round(s4, check_round(s4.log, cfg), cfg, script)

\* lines 189-201: the codes are cleared, the command goes out
clear_and_send(s1, cfg, script) ==
    first_wait(
        update_log_timeout(
            send_string_command(
                [s1 EXCEPT !.log = remove_codes(remove_codes(s1.log,
                                       cfg.codes_to_remove_from_log), cfg.responses_code)],
                cfg.cmd, script[1]),
            cfg.wait_for_new_messages, cfg.timeout),
        cfg, script)

\* line 188 on, from the outcome s1 of the first update_log
after_update(s1, cfg, script) ==
    IF s1.fault # "none" THEN s1 ELSE clear_and_send(s1, cfg, script)

\* send_command_handled; script[1] is what the peer sends once the command is
\* out, script[2] what it sends before the second wait ends; the state keeps
\* the timeout the method was called with
send_command_handled(st0, cfg, script) ==
    after_update(update_log([st0 EXCEPT !.timeout = cfg.timeout], FALSE), cfg, script)

-----------------------------------------------------------------------------
(* RobotController.connect and disconnect.  A controller is a record of its
   socket attribute (TRUE for a socket object, FALSE for None) and the state
   its log works on. *)

c3000 == <<"3", "0", "0", "0">>
c3001 == <<"3", "0", "0", "1">>

\* lines 79-85: the checks of the greeting
connect_checks ==
    [cmd |-> "connect", codes_to_remove_from_log |-> <<>>, errors_code |-> <<c3001>>,
     responses_code |-> <<c3000>>, handle_all_errors |-> TRUE,
     wait_for_new_messages |-> TRUE, timeout |-> NoneT]

\* lines 71-85, from the outcome u of update_log(wait_for_new_messages=True)
connect_greeting(u) ==
    IF u.fault # "none" THEN u
    ELSE round_result(u, check_round(u.log, connect_checks), 1)

\* connect: nothing when the socket attribute is set; the attribute is reset
\* to None in the except clause of the socket calls and nowhere else
connect(ctl, refused, greeting) ==
    IF ctl.socket THEN [ctl EXCEPT !.attempted = FALSE, !.st.fault = "none"]
    ELSE IF refused
    THEN [ctl EXCEPT !.socket = FALSE, !.attempted = TRUE, !.st.fault = "socket.error"]
    ELSE [socket |-> TRUE, attempted |-> TRUE,
          st |-> connect_greeting(
                     update_log([ctl.st EXCEPT !.log = <<>>, !.buffer = <<>>,
                                               !.messages = <<>>,
                                               !.sock = Join(Frames(greeting)),
                                               !.fault = "none", !.res = None],
                                TRUE))]

\* disconnect: the socket is closed and the attribute reset
disconnect(ctl) == [ctl EXCEPT !.socket = FALSE, !.st.sock = <<>>]

-----------------------------------------------------------------------------
(* The command wrappers of RobotController.  Arguments are integers; the
   times of SetMonitoringInterval are in thousandths of a second. *)

c2054 == <<"2", "0", "5", "4">>
c2055 == <<"2", "0", "5", "5">>

RECURSIVE build_args(_)
\* str(arg_list[0]) + ',' + ... + str(arg_list[-1])
build_args(arg_list) ==
    IF Len(arg_list) = 1 THEN <<ToString(arg_list[1])>>
    ELSE <<ToString(Head(arg_list)), ",">> \o build_args(Tail(arg_list))

\* build_command that puts a comma after the last argument too
build_command_trailing_comma(cmd, arg_list) ==
    IF Len(arg_list) = 0 THEN <<cmd>>
    ELSE <<cmd, "(">> \o build_args(arg_list) \o <<",", ")">>

\* build_command(cmd, arg_list): the pieces of the command string
build_command(cmd, arg_list) ==
    IF Len(arg_list) = 0 THEN <<cmd>>
    ELSE <<cmd, "(">> \o build_args(arg_list) \o <<")">>

\* a wrapper raises ValueError before it does anything else
validation_fault(st) == [st EXCEPT !.fault = "ValueError"]

\* send_request_command: a timeout of None or 0 becomes
\* request_commands_response_timeout (1 second)
send_request_command(st, cfg, script) ==
    send_command_handled(
        st,
        [cfg EXCEPT !.timeout = IF cfg.timeout = NoneT \/ cfg.timeout = 0
                                 THEN 1 ELSE cfg.timeout],
        script)

\* the parameters of a request whose wrapper names only the response codes
request(cmd, responses_code, wait_for_new_messages) ==
    [cmd |-> cmd, codes_to_remove_from_log |-> <<>>, errors_code |-> <<>>,
     responses_code |-> responses_code, handle_all_errors |-> TRUE,
     wait_for_new_messages |-> wait_for_new_messages, timeout |-> NoneT]

\* a motion command: the string goes out, then update_log_for_motion_commands,
\* which calls update_log(wait_for_new_messages=True, timeout=...)
motion_command(st, cmd, script) ==
    update_log_timeout(send_string_command(st, cmd, script[1]), TRUE, 1)

\* MoveJoints sends first and counts the joints afterwards
MoveJoints_send_first(st, joints, script) ==
    IF Len(joints) # 6
    THEN validation_fault(motion_command(st, build_command("MoveJoints", joints), script))
    ELSE motion_command(st, build_command("MoveJoints", joints), script)

MoveJoints(st, joints, script) ==
    IF Len(joints) # 6 THEN validation_fault(st)
    ELSE motion_command(st, build_command("MoveJoints", joints), script)

SetEOB(st, e, script) ==
    IF e # 0 /\ e # 1 THEN validation_fault(st)
    ELSE send_request_command(
             st,
             request(build_command("SetEOB", <<e>>),
                     IF e = 0 THEN <<c2055>> ELSE <<c2054>>, TRUE),
             script)

SetMonitoringInterval(st, t, script) ==
    IF ~(t >= 1 /\ t <= 1000) THEN validation_fault(st)
    ELSE send_request_command(
             st, request(build_command("SetMonitoringInterval", <<t>>), <<>>, FALSE),
             script)

SetAutoConf(st, e, script) ==
    IF e # 0 /\ e # 1 THEN validation_fault(st)
    ELSE motion_command(st, build_command("SetAutoConf", <<e>>), script)

SetBlending(st, p, script) ==
    IF ~(p >= 0 /\ p <= 100) THEN validation_fault(st)
    ELSE motion_command(st, build_command("SetBlending", <<p>>), script)

SetCartAcc(st, p, script) ==
    IF ~(p > 1 /\ p <= 100) THEN validation_fault(st)
    ELSE motion_command(st, build_command("SetCartAcc", <<p>>), script)

c1025 == <<"1", "0", "2", "5">>
c2005 == <<"2", "0", "0", "5">>
c2006 == <<"2", "0", "0", "6">>

\* lines 352-353 of ResetError, from the outcome r of its request
ResetError_cleanup(r) ==
    IF r.fault # "none" THEN r
    ELSE LET u == update_log(r, FALSE)
         IN IF u.fault # "none" THEN u ELSE [u EXCEPT !.log = remove_all_code(u.log, c1)]

\* ResetError: the request, then a refresh of the log and remove_all_code("1")
ResetError(st, script) ==
    ResetError_cleanup(
        send_request_command(
            st,
            [cmd |-> <<"ResetError">>, codes_to_remove_from_log |-> <<c1>>,
             errors_code |-> <<c1025>>, responses_code |-> <<c2005, c2006>>,
             handle_all_errors |-> FALSE, wait_for_new_messages |-> TRUE,
             timeout |-> NoneT],
            script))

-----------------------------------------------------------------------------
(* parsingLib and RobotFeedback *)

\* get_data keeps the newest 10 frames
FeedbackWindow == 10

c2026 == <<"2", "0", "2", "6">>
c2027 == <<"2", "0", "2", "7">>
c2102 == <<"2", "1", "0", "2">>
c2103 == <<"2", "1", "0", "3">>
c2201 == <<"2", "2", "0", "1">>
c2210 == <<"2", "2", "1", "0">>
c2214 == <<"2", "2", "1", "4">>

\* a value that may be None: has says whether there is one
Absent == [has |-> FALSE, val |-> <<>>]

Present(v) == [has |-> TRUE, val |-> v]

RECURSIVE extract_scan(_, _, _)
\* the loop of extract_payload_from_messages: every message is decoded, and
\* payload is assigned at every message that carries the code
extract_scan(code, msgs, payload) ==
    IF msgs = <<>> THEN [fault |-> "none", payload |-> payload]
    ELSE LET m == message2codepayload(Head(msgs))
         IN IF m.fault # "none" THEN [fault |-> m.fault, payload |-> Absent]
            ELSE extract_scan(code, Tail(msgs),
                              IF m.code = code THEN Present(m.payload) ELSE payload)

extract_payload_from_messages(code, msgs) == extract_scan(code, msgs, Absent)

RECURSIVE split(_, _)
\* payload.split(','): cur is the piece being read
split(payload, cur) ==
    IF payload = <<>> THEN <<cur>>
    ELSE IF Head(payload) = "," THEN <<cur>> \o split(Tail(payload), <<>>)
    ELSE split(Tail(payload), Append(cur, Head(payload)))

Digits == {"0", "1", "2"}

DigitVal(ch) == CASE ch = "0" -> 0 [] ch = "1" -> 1 [] ch = "2" -> 2

RECURSIVE float_acc(_, _)
float_acc(piece, acc) ==
    IF piece = <<>> THEN acc ELSE float_acc(Tail(piece), 10 * acc + DigitVal(Head(piece)))

\* float(x) on a piece of unsigned digits; anything else is a ValueError (-1)
float(piece) ==
    IF piece = <<>> \/ \E i \in 1..Len(piece) : piece[i] \notin Digits
    THEN -1 ELSE float_acc(piece, 0)

\* payload2tuple(payload): the numbers between the commas, or ValueError
payload2tuple(payload) ==
    LET pieces == split(payload, <<>>)
        vals == [i \in 1..Len(pieces) |-> float(pieces[i])]
    IN IF \E i \in 1..Len(vals) : vals[i] = -1
       THEN [fault |-> "ValueError", has |-> FALSE, val |-> <<>>]
       ELSE [fault |-> "none", has |-> TRUE, val |-> vals]

\* status_robot_list2dict reads the indexes 0 to 6 of the tuple
StatusFields == 7

\* status_robot_list2dict with the keys pm and eob exchanged
status_robot_list2dict_swapped(t) ==
    IF Len(t) < StatusFields THEN [fault |-> "IndexError", has |-> FALSE, val |-> <<>>]
    ELSE [fault |-> "none", has |-> TRUE,
          val |-> [as |-> t[1], hs |-> t[2], sm |-> t[3], es |-> t[4],
                   pm |-> t[6], eob |-> t[5], eom |-> t[7]]]

\* the dictionary of the seven keys; a shorter tuple is an IndexError
status_robot_list2dict(t) ==
    IF Len(t) < StatusFields THEN [fault |-> "IndexError", has |-> FALSE, val |-> <<>>]
    ELSE [fault |-> "none", has |-> TRUE,
          val |-> [as |-> t[1], hs |-> t[2], sm |-> t[3], es |-> t[4],
                   pm |-> t[5], eob |-> t[6], eom |-> t[7]]]

\* set_*_from_messages for joints, pose and cartesian velocity: an absent or
\* empty payload gives None
set_tuple_from_messages(code, msgs) ==
    LET e == extract_payload_from_messages(code, msgs)
    IN IF e.fault # "none" THEN [fault |-> e.fault, has |-> FALSE, val |-> <<>>]
       ELSE IF ~e.payload.has \/ e.payload.val = <<>>
            THEN [fault |-> "none", has |-> FALSE, val |-> <<>>]
       ELSE payload2tuple(e.payload.val)

set_status_robot_from_messages(code, msgs) ==
    LET t == set_tuple_from_messages(code, msgs)
    IN IF t.fault # "none" \/ ~t.has THEN t ELSE status_robot_list2dict(t.val)

\* RobotFeedback.__init__ without the firmware 8 branch
RobotFeedback_init_no_v8(firmware_version_9, firmware_version_8) ==
    IF firmware_version_9
    THEN [firmware_version_9 |-> TRUE, joints |-> c2210, pose |-> c2201,
          cart_vel |-> c2214, status |-> c2007]
    ELSE [firmware_version_9 |-> FALSE, joints |-> c2102, pose |-> c2103,
          cart_vel |-> <<>>, status |-> c2007]

\* RobotFeedback.__init__: the codes the instance reads; the cartesian
\* velocity code is set for firmware 9 only (<<>> stands for the unset attribute)
RobotFeedback_init(firmware_version_9, firmware_version_8) ==
    IF firmware_version_9
    THEN [firmware_version_9 |-> TRUE, joints |-> c2210, pose |-> c2201,
          cart_vel |-> c2214, status |-> c2007]
    ELSE IF firmware_version_8
    THEN [firmware_version_9 |-> FALSE, joints |-> c2026, pose |-> c2027,
          cart_vel |-> <<>>, status |-> c2007]
    ELSE [firmware_version_9 |-> FALSE, joints |-> c2102, pose |-> c2103,
          cart_vel |-> <<>>, status |-> c2007]

\* the tuple get_data returns, from one quantity to the next: the first fault
\* ends the call
get_data_status(fb, msgs, joints, pose, cart_vel) ==
    LET st == set_status_robot_from_messages(fb.status, msgs)
    IN [fault |-> st.fault, joints |-> joints, pose |-> pose, cart_vel |-> cart_vel,
        status |-> [has |-> st.has, val |-> st.val]]

get_data_cart_vel(fb, msgs, joints, pose) ==
    IF ~fb.firmware_version_9 THEN get_data_status(fb, msgs, joints, pose, Absent)
    ELSE LET c == set_tuple_from_messages(fb.cart_vel, msgs)
         IN IF c.fault # "none"
            THEN [fault |-> c.fault, joints |-> Absent, pose |-> Absent,
                  cart_vel |-> Absent, status |-> Absent]
            ELSE get_data_status(fb, msgs, joints, pose, [has |-> c.has, val |-> c.val])

get_data_pose(fb, msgs, joints) ==
    LET q == set_tuple_from_messages(fb.pose, msgs)
    IN IF q.fault # "none"
       THEN [fault |-> q.fault, joints |-> Absent, pose |-> Absent,
             cart_vel |-> Absent, status |-> Absent]
       ELSE get_data_cart_vel(fb, msgs, joints, [has |-> q.has, val |-> q.val])

\* lines 96-112 on the list get_last_messages returned: reversed when not
\* empty, then scanned for each quantity
get_data_scan(fb, out) ==
    IF out = <<>>
    THEN [fault |-> "none", joints |-> Absent, pose |-> Absent, cart_vel |-> Absent,
          status |-> Absent]
    ELSE LET j == set_tuple_from_messages(fb.joints, Reverse(out))
         IN IF j.fault # "none"
            THEN [fault |-> j.fault, joints |-> Absent, pose |-> Absent,
                  cart_vel |-> Absent, status |-> Absent]
            ELSE get_data_pose(fb, Reverse(out), [has |-> j.has, val |-> j.val])

\* get_data once its wait is over: g is the outcome of get_last_messages(10)
get_data(fb, g) ==
    IF g.fault # "none"
    THEN [fault |-> g.fault, joints |-> Absent, pose |-> Absent, cart_vel |-> Absent,
          status |-> Absent]
    ELSE get_data_scan(fb, g.out)

-----------------------------------------------------------------------------
(* The record of the last operation *)

Op(op, code, purge, before, res, fault) ==
    [op |-> op, code |-> code, purge |-> purge, before |-> before, res |-> res,
     fault |-> fault]

NoOp == Op("none", <<>>, FALSE, <<>>, None, "none")

NoCall == [op |-> "none"]

InitAll ==
    /\ written = <<>> /\ wire = <<>> /\ sock = <<>> /\ closed = FALSE
    /\ buffer = <<>> /\ messages = <<>> /\ waiting = "no" /\ waitT = NoneT
    /\ returned = <<>> /\ taken = 0 /\ overflowed = FALSE
    /\ log = <<>> /\ nappended = 0
    /\ sent = <<>> /\ call = NoCall
    /\ last = NoOp

-----------------------------------------------------------------------------
(* The peer *)

\* the peer writes one frame and its terminator
PeerWrite ==
    \E f \in WellFormed :
        /\ ~closed /\ Len(written) < MaxFrames
        /\ written' = Append(written, f)
        /\ wire' = wire \o f \o <<NUL>>
        /\ UNCHANGED <<sock, closed, buffer, messages, waiting, waitT, returned, taken,
                       overflowed, log, nappended, sent, call, last>>

\* the next k bytes become readable: a blocked select returns
Deliver ==
    \E k \in 1..Len(wire) :
        /\ sock' = sock \o Take(wire, k)
        /\ wire' = Drop(wire, k)
        /\ waiting' = "no"
        /\ UNCHANGED <<written, closed, buffer, messages, waitT, returned, taken,
                       overflowed, log, nappended, sent, call, last>>

\* the peer shuts the connection down: the socket becomes readable, reads give 0 bytes
PeerClose ==
    /\ ~closed /\ wire = <<>>
    /\ closed' = TRUE
    /\ waiting' = "no"
    /\ UNCHANGED <<written, wire, sock, buffer, messages, waitT, returned, taken,
                   overflowed, log, nappended, sent, call, last>>

-----------------------------------------------------------------------------
(* The operations of MessageReceiver *)

Bufsizes == {1, Bufsize}

Recv ==
    \E bs \in Bufsizes :
        /\ waiting = "no"
        /\ LET r == recv(buffer, messages, sock, bs)
           IN /\ buffer' = r.buffer /\ messages' = r.messages /\ sock' = r.sock
              /\ last' = Op("recv", <<>>, FALSE, <<>>, None, r.fault)
        /\ UNCHANGED <<written, wire, closed, waiting, waitT, returned, taken, overflowed,
                       log, nappended, sent, call>>

RecvAll ==
    \E bs \in Bufsizes :
        /\ waiting = "no"
        /\ LET r == recv_all(buffer, messages, sock, bs)
           IN /\ buffer' = r.buffer /\ messages' = r.messages /\ sock' = r.sock
              /\ last' = Op("recv_all", <<>>, FALSE, <<>>, None, r.fault)
        /\ UNCHANGED <<written, wire, closed, waiting, waitT, returned, taken, overflowed,
                       log, nappended, sent, call>>

GetLastMessages ==
    \E n \in 1..MaxNum :
        /\ waiting = "no"
        /\ LET r == get_last_messages(n, buffer, messages, sock)
           IN /\ buffer' = r.buffer /\ messages' = r.messages /\ sock' = r.sock
              /\ returned' = returned \o r.out
              /\ taken' = IF r.fault = "none" THEN taken + r.queued ELSE taken
              /\ overflowed' = (overflowed \/ (r.fault = "none" /\ r.queued > n))
              /\ last' = Op("get_last_messages", <<>>, FALSE, <<>>, None, r.fault)
        /\ UNCHANGED <<written, wire, closed, waiting, waitT, log, nappended, sent, call>>

\* wait_for_new_messages(timeout): returns at once when the socket is readable
WaitForNewMessages ==
    \E t \in Timeouts :
        /\ waiting = "no"
        /\ waitT' = t
        /\ waiting' = IF bytes_available THEN "no" ELSE wait_select(t)
        /\ last' = Op("wait_for_new_messages", <<>>, FALSE, <<>>, None, "none")
        /\ UNCHANGED <<written, wire, sock, closed, buffer, messages, returned, taken,
                       overflowed, log, nappended, sent, call>>

\* the timeout of a bounded select expires
WaitTimeout ==
    /\ waiting = "bounded"
    /\ waiting' = "no"
    /\ UNCHANGED <<written, wire, sock, closed, buffer, messages, waitT, returned, taken,
                   overflowed, log, nappended, sent, call, last>>

NextFramer ==
    \/ PeerWrite \/ Deliver \/ PeerClose
    \/ Recv \/ RecvAll \/ GetLastMessages
    \/ WaitForNewMessages \/ WaitTimeout

SpecFramer == InitAll /\ [][NextFramer]_vars

-----------------------------------------------------------------------------
(* The operations of MecademicLog and the log checks of RobotController, on
   a log filled through its deque *)

\* the (code, payload) tuples the log is filled with
LogTuples ==
    { <<c2007, <<>>>>, <<c2007, <<"a">>>>, <<c1005, <<>>>>, <<c2000, <<>>>> }

LogCodes == {c2007, c1005, c2000}

\* the batches of one to MaxBatch tuples
Batches == UNION { [1..n -> LogTuples] : n \in 1..MaxBatch }

\* the events of a batch, numbered from the count of events appended so far
Stamp(batch, n) == [i \in 1..Len(batch) |-> Event(batch[i][1], batch[i][2], n + i)]

\* self.log.extend(messages)
LogExtend ==
    \E batch \in Batches :
        /\ nappended + Len(batch) <= MaxAppended
        /\ log' = deque_extend(log, Stamp(batch, nappended))
        /\ nappended' = nappended + Len(batch)
        /\ last' = Op("extend", <<>>, FALSE, log, None, "none")
        /\ UNCHANGED <<recvVars, dispVars>>

GetLastCodeOccurance ==
    \E code \in LogCodes \cup {c1}, delete_others \in BOOLEAN :
        /\ LET r == get_last_code_occurance(log, code, delete_others)
           IN /\ log' = r.log
              /\ last' = Op("get_last_code_occurance", code, delete_others, log, r.res, "none")
        /\ UNCHANGED <<nappended>>
        /\ UNCHANGED <<recvVars, dispVars>>

RemoveAllCode ==
    \E code \in LogCodes \cup {c1} :
        /\ log' = remove_all_code(log, code)
        /\ last' = Op("remove_all_code", code, FALSE, log, None, "none")
        /\ UNCHANGED <<nappended>>
        /\ UNCHANGED <<recvVars, dispVars>>

GetFirstMessage ==
    /\ LET r == get_first_message(log)
       IN /\ log' = r.log
          /\ last' = Op("get_first_message", <<>>, FALSE, log, r.res, "none")
    /\ UNCHANGED <<nappended>>
    /\ UNCHANGED <<recvVars, dispVars>>

GetLastMessage ==
    /\ LET r == get_last_message(log)
       IN /\ log' = r.log
          /\ last' = Op("get_last_message", <<>>, FALSE, log, r.res, "none")
    /\ UNCHANGED <<nappended>>
    /\ UNCHANGED <<recvVars, dispVars>>

HandleSpecificError ==
    \E code \in LogCodes :
        /\ LET r == handle_specific_error(log, code)
           IN /\ log' = r.log
              /\ last' = Op("handle_specific_error", code, TRUE, log, r.res, r.fault)
        /\ UNCHANGED <<nappended>>
        /\ UNCHANGED <<recvVars, dispVars>>

HandleErrors ==
    /\ LET r == handle_errors(log)
       IN /\ log' = r.log
          /\ last' = Op("handle_errors", c1, FALSE, log, r.res, r.fault)
    /\ UNCHANGED <<nappended>>
    /\ UNCHANGED <<recvVars, dispVars>>

\* the lists of response codes checked
ResponseLists == {<<>>, <<c2007>>, <<c2000, c2007>>, <<c2007, c2000>>}

CheckResponse ==
    \E codes \in ResponseLists :
        /\ LET r == check_response(log, codes)
           IN /\ log' = r.log
              /\ last' = Op("check_response", codes, TRUE, log, r.res, r.fault)
        /\ UNCHANGED <<nappended>>
        /\ UNCHANGED <<recvVars, dispVars>>

NextLog ==
    \/ LogExtend \/ GetLastCodeOccurance \/ RemoveAllCode
    \/ GetFirstMessage \/ GetLastMessage
    \/ HandleSpecificError \/ HandleErrors \/ CheckResponse

SpecLog == InitAll /\ [][NextLog]_vars

-----------------------------------------------------------------------------
(* The command dispatch of a connected RobotController against its peer *)

\* the (code, payload) tuples the peer sends on the control connection
PeerTuples == { <<c1005, <<>>>>, <<c1013, <<>>>>, <<c2001, <<>>>> }

\* what the peer sends in reply to a command before one wait ends: nothing or one frame
Replies == {<<>>, << <<c1005, <<>>>> >>, << <<c2001, <<>>>> >>, << <<c2007, <<>>>> >>}

\* the parameters of ActivateRobot, GetStatusRobot and SetMonitoringInterval
Configs ==
    { [cmd |-> "ActivateRobot", codes_to_remove_from_log |-> <<c1005>>,
       errors_code |-> <<c1013>>, responses_code |-> <<c2000, c2001>>,
       handle_all_errors |-> TRUE, wait_for_new_messages |-> TRUE, timeout |-> 10],
      [cmd |-> "GetStatusRobot", codes_to_remove_from_log |-> <<>>,
       errors_code |-> <<>>, responses_code |-> <<c2007>>,
       handle_all_errors |-> FALSE, wait_for_new_messages |-> TRUE, timeout |-> 1],
      [cmd |-> "SetMonitoringInterval", codes_to_remove_from_log |-> <<>>,
       errors_code |-> <<>>, responses_code |-> <<>>,
       handle_all_errors |-> TRUE, wait_for_new_messages |-> FALSE, timeout |-> 1] }

\* the peer sends one frame, which becomes readable whole
PeerEmit ==
    \E t \in PeerTuples :
        /\ ~closed /\ Len(written) < MaxFrames
        /\ written' = Append(written, Frame(t))
        /\ sock' = sock \o Frame(t) \o <<NUL>>
        /\ UNCHANGED <<wire, closed, buffer, messages, waiting, waitT, returned, taken,
                       overflowed, log, nappended, sent, call, last>>

\* the tuple a well-formed frame carries
TupleOf(frame) ==
    LET m == message2codepayload(frame) IN <<m.code, m.payload>>

\* the tuples of the frames the peer has sent and no read has taken yet
Unread == [i \in 1..(Len(written) - taken) |-> TupleOf(written[taken + i])]

\* the state after a dispatch whose outcome is r; drop says the peer closes
\* the connection once the command has reached it
DispatchResult(r, cfg, script, drop) ==
    /\ log' = r.log /\ buffer' = r.buffer /\ messages' = r.messages
    /\ sock' = r.sock /\ sent' = r.sent
    /\ closed' = (closed \/ (drop /\ r.sent # sent))
    /\ taken' = IF r.fault = "ConnectionError" THEN taken ELSE Len(written)
    /\ call' = [op |-> "send_command_handled", cfg |-> cfg, pre |-> Unread,
                script |-> script, fault |-> r.fault, res |-> r.res,
                rounds |-> r.rounds, nsent |-> Len(r.sent) - Len(sent),
                open |-> ~closed, drop |-> drop]
    /\ last' = Op("send_command_handled", <<>>, FALSE, log, r.res, r.fault)

Dispatch ==
    \E cfg \in Configs, script \in [1..2 -> Replies], drop \in BOOLEAN :
        /\ waiting = "no"
        /\ DispatchResult(
               send_command_handled(
                   [log |-> log, buffer |-> buffer, messages |-> messages,
                    sock |-> sock, sent |-> sent, fault |-> "none", res |-> None,
                    rounds |-> 0, timeout |-> NoneT],
                   cfg, script),
               cfg, script, drop)
        /\ UNCHANGED <<written, wire, waiting, waitT, returned, overflowed,
                       nappended>>

Next == PeerEmit \/ PeerClose \/ Dispatch

Spec == InitAll /\ [][Next]_vars

-----------------------------------------------------------------------------
(* A connected RobotFeedback polled against its peer *)

StatusPayload == <<"1", ",", "1", ",", "0", ",", "0", ",", "0", ",", "1", ",", "1">>

\* the (code, payload) tuples the peer sends on the feedback connection
FeedTuples ==
    { <<c2210, <<"1">>>>, <<c2210, <<"2">>>>, <<c2201, <<"1", ",", "2">>>>,
      <<c2214, <<"2">>>>, <<c2026, <<"1">>>>, <<c2027, <<"2">>>>,
      <<c2102, <<"1">>>>, <<c2103, <<"2">>>>, <<c2007, StatusPayload>> }

\* a feedback object of any firmware selection, connected, nothing received
InitFeedback ==
    /\ written = <<>> /\ wire = <<>> /\ sock = <<>> /\ closed = FALSE
    /\ buffer = <<>> /\ messages = <<>> /\ waiting = "no" /\ waitT = NoneT
    /\ returned = <<>> /\ taken = 0 /\ overflowed = FALSE
    /\ log = <<>> /\ nappended = 0 /\ sent = <<>> /\ last = NoOp
    /\ \E firmware_version_9 \in BOOLEAN, firmware_version_8 \in BOOLEAN :
           call = [op |-> "init",
                   flags |-> <<firmware_version_9, firmware_version_8>>,
                   fb |-> RobotFeedback_init(firmware_version_9, firmware_version_8)]

\* the peer sends one feedback frame, which becomes readable whole
FeedEmit ==
    \E t \in FeedTuples :
        /\ ~closed /\ Len(written) < MaxFrames
        /\ written' = Append(written, Frame(t))
        /\ sock' = sock \o Frame(t) \o <<NUL>>
        /\ UNCHANGED <<wire, closed, buffer, messages, waiting, waitT, returned, taken,
                       overflowed, log, nappended, sent, call, last>>

\* the frames the peer has sent and no read has taken yet
UnreadFrames == SubSeq(written, taken + 1, Len(written))

\* the state after a get_data whose read gave g
GetDataResult(g) ==
    /\ buffer' = g.buffer /\ messages' = g.messages /\ sock' = g.sock
    /\ taken' = IF g.fault = "ConnectionError" THEN taken ELSE Len(written)
    /\ call' = [op |-> "get_data", flags |-> call.flags, fb |-> call.fb,
                pre |-> UnreadFrames,
                out |-> g.out, r |-> get_data(call.fb, g)]

\* get_data(wait_for_new_messages, timeout); a wait without a timeout (None
\* or 0) returns only when something is readable
GetData ==
    \E wait_for_new_messages \in BOOLEAN, timeout \in Timeouts :
        /\ wait_for_new_messages /\ wait_select(timeout) = "forever"
               => sock # <<>> \/ closed
        /\ GetDataResult(get_last_messages(FeedbackWindow, buffer, messages, sock))
        /\ UNCHANGED <<written, wire, closed, waiting, waitT, returned, overflowed,
                       log, nappended, sent, last>>

NextFeedback == FeedEmit \/ PeerClose \/ GetData

SpecFeedback == InitFeedback /\ [][NextFeedback]_vars

-----------------------------------------------------------------------------
(* A RobotFeedback polled against a peer that sends more frames than the
   window of a poll holds *)

RECURSIVE Numeral(_)
\* a numeral of the digits 0, 1 and 2, a different one for each k
Numeral(k) ==
    IF k < 3 THEN <<ToString(k)>> ELSE Append(Numeral(k \div 3), ToString(k % 3))

\* the peer sends its next joints frame; every frame carries another value
BurstEmit ==
    /\ ~closed /\ Len(written) < MaxBurst
    /\ LET f == Frame(<<c2210, Numeral(Len(written) + 1)>>)
       IN /\ written' = Append(written, f)
          /\ sock' = sock \o f \o <<NUL>>
    /\ UNCHANGED <<wire, closed, buffer, messages, waiting, waitT, returned, taken,
                   overflowed, log, nappended, sent, call, last>>

NextWindow == BurstEmit \/ GetData

SpecWindow == InitFeedback /\ [][NextWindow]_vars

-----------------------------------------------------------------------------
(* A MecademicLog updated against a peer that also sends malformed frames *)

\* two well-formed frames, and frames without the leading bracket, without the
\* separator and without the trailing bracket
LogFrames ==
    { Frame(<<c2000, <<>>>>), Frame(<<c1005, <<>>>>),
      <<"2", "0", "0", "0", "]", "[", "]">>,
      <<"[", "2", "0", "0", "0", "]">>,
      <<"[", "2", "0", "0", "0", "]", "[">> }

\* the peer sends one frame, which becomes readable whole
LogEmit ==
    \E f \in LogFrames :
        /\ ~closed /\ Len(written) < MaxFrames
        /\ written' = Append(written, f)
        /\ sock' = sock \o f \o <<NUL>>
        /\ UNCHANGED <<wire, closed, buffer, messages, waiting, waitT, returned, taken,
                       overflowed, log, nappended, sent, call, last>>

\* the state after an update_log whose outcome is r
UpdateLogResult(r, wait_for_new_messages) ==
    /\ r.fault # "blocked"
    /\ log' = r.log /\ buffer' = r.buffer /\ messages' = r.messages /\ sock' = r.sock
    /\ nappended' = nappended + (Len(r.log) - Len(log))
    /\ taken' = IF r.fault = "ConnectionError" THEN taken ELSE Len(written)
    /\ call' = [op |-> "update_log", pre |-> UnreadFrames, fault |-> r.fault,
                notified |-> IF wait_for_new_messages /\ sock = <<>> /\ ~closed
                             THEN <<>>
                             ELSE observer_calls(
                                      get_last_messages(LogSize, buffer, messages, sock))]
    /\ last' = Op("update_log", <<>>, wait_for_new_messages, log, None, r.fault)

\* update_log(wait_for_new_messages)
UpdateLog ==
    \E wait_for_new_messages \in BOOLEAN :
        /\ UpdateLogResult(
               update_log([log |-> log, buffer |-> buffer, messages |-> messages,
                           sock |-> sock, sent |-> sent, fault |-> "none",
                           res |-> None, rounds |-> 0],
                          wait_for_new_messages),
               wait_for_new_messages)
        /\ UNCHANGED <<written, wire, closed, waiting, waitT, returned, overflowed, sent>>

NextDecode == LogEmit \/ PeerClose \/ UpdateLog

SpecDecode == InitAll /\ [][NextDecode]_vars

-----------------------------------------------------------------------------
(* The command wrappers called on a connected RobotController *)

JointVectors == { [i \in 1..n |-> 0] : n \in {5, 6, 7} }

Flags == {0, 1, 2}

Percents == {-1, 1, 100, 101}

Intervals == {0, 1, 1001}

\* the state a wrapper starts from
Here ==
    [log |-> log, buffer |-> buffer, messages |-> messages, sock |-> sock,
     sent |-> sent, fault |-> "none", res |-> None, rounds |-> 0, timeout |-> NoneT]

\* the peer sends nothing in reply to these commands
NoReply == <<<<>>, <<>>>>

\* the state after a wrapper whose outcome is r; io says whether the socket,
\* the receiver or the log were touched
CommandResult(r, op, arg) ==
    /\ Len(sent) < MaxSent
    /\ log' = r.log /\ buffer' = r.buffer /\ messages' = r.messages
    /\ sock' = r.sock /\ sent' = r.sent
    /\ call' = [op |-> op, arg |-> arg, fault |-> r.fault,
                nsent |-> Len(r.sent) - Len(sent), timeout |-> r.timeout,
                readable |-> sock # <<>>,
                io |-> (r.sent # sent \/ r.sock # sock \/ r.buffer # buffer
                          \/ r.messages # messages \/ r.log # log)]
    /\ last' = Op(op, <<>>, FALSE, log, r.res, r.fault)
    /\ UNCHANGED <<written, wire, closed, waiting, waitT, returned, taken, overflowed,
                   nappended>>

CallMoveJoints ==
    \E joints \in JointVectors :
        CommandResult(MoveJoints(Here, joints, NoReply), "MoveJoints", joints)

CallSetEOB ==
    \E e \in Flags :
        CommandResult(SetEOB(Here, e, NoReply), "SetEOB", e)

CallSetMonitoringInterval ==
    \E t \in Intervals :
        CommandResult(SetMonitoringInterval(Here, t, NoReply), "SetMonitoringInterval", t)

CallSetAutoConf ==
    \E e \in Flags :
        CommandResult(SetAutoConf(Here, e, NoReply), "SetAutoConf", e)

CallSetBlending ==
    \E p \in Percents :
        CommandResult(SetBlending(Here, p, NoReply), "SetBlending", p)

CallSetCartAcc ==
    \E p \in Percents :
        CommandResult(SetCartAcc(Here, p, NoReply), "SetCartAcc", p)

\* send_request_command called with a timeout of None, 0 or 1 second
CallSendRequestCommand ==
    \E t \in Timeouts :
        CommandResult(
            send_request_command(
                Here, [request(<<"GetStatusRobot">>, <<c2007>>, TRUE) EXCEPT !.timeout = t],
                NoReply),
            "send_request_command", t)

\* what the peer answers to ResetError: nothing, or that the error was reset
ResetReplies == {<<>>, << <<c2005, <<>>>> >>}

CallResetError ==
    \E reply \in ResetReplies :
        CommandResult(ResetError(Here, <<reply, <<>>>>), "ResetError", reply)

NextCommands ==
    \/ PeerEmit \/ PeerClose
    \/ CallMoveJoints \/ CallSetEOB \/ CallSetMonitoringInterval
    \/ CallSetAutoConf \/ CallSetBlending \/ CallSetCartAcc \/ CallResetError
    \/ CallSendRequestCommand

SpecCommands == InitAll /\ [][NextCommands]_vars

-----------------------------------------------------------------------------
(* A RobotController connected to and disconnected from its peer *)

\* the frames of a greeting: connected, another user connected, an error, and
\* a frame of no concern to connect
GreetingTuples == { <<c3000, <<>>>>, <<c3001, <<>>>>, <<c1005, <<>>>>, <<c2000, <<>>>> }

\* what the peer sends when a connection is accepted: one or two frames
Greetings == UNION { [1..n -> GreetingTuples] : n \in 1..2 }

\* a controller just constructed: no socket
InitConnect ==
    /\ written = <<>> /\ wire = <<>> /\ sock = <<>> /\ closed = FALSE
    /\ buffer = <<>> /\ messages = <<>> /\ waiting = "no" /\ waitT = NoneT
    /\ returned = <<>> /\ taken = 0 /\ overflowed = FALSE
    /\ log = <<>> /\ nappended = 0 /\ sent = <<>> /\ last = NoOp
    /\ call = [op |-> "init", socket |-> FALSE, before |-> FALSE, attempted |-> FALSE,
               fault |-> "none", greeting |-> <<>>]

\* the state after a connect or disconnect that left the controller as c
ControllerResult(c, op, greeting) ==
    /\ log' = c.st.log /\ buffer' = c.st.buffer /\ messages' = c.st.messages
    /\ sock' = c.st.sock
    /\ written' = IF c.attempted THEN Frames(greeting) ELSE written
    /\ taken' = IF c.attempted THEN Len(Frames(greeting)) ELSE taken
    /\ call' = [op |-> op, socket |-> c.socket, before |-> call.socket,
                attempted |-> c.attempted, fault |-> c.st.fault,
                greeting |-> IF c.attempted THEN greeting ELSE <<>>]
    /\ last' = Op(op, <<>>, FALSE, log, c.st.res, c.st.fault)
    /\ UNCHANGED <<wire, closed, waiting, waitT, returned, overflowed, nappended, sent>>

\* the controller of the current state
Controller == [socket |-> call.socket, attempted |-> FALSE, st |-> Here]

Connect ==
    \E refused \in BOOLEAN, greeting \in Greetings :
        ControllerResult(connect(Controller, refused, IF refused THEN <<>> ELSE greeting),
                         "connect", IF refused THEN <<>> ELSE greeting)

Disconnect == ControllerResult(disconnect(Controller), "disconnect", <<>>)

\* the peer sends a frame on the connection the controller holds
ConnectedEmit == call.socket /\ PeerEmit

NextConnect == Connect \/ Disconnect \/ ConnectedEmit

SpecConnect == InitConnect /\ [][NextConnect]_vars

-----------------------------------------------------------------------------
(* The functions of parsingLib applied to bounded inputs *)

CommandNames == {"MoveJoints", "SetEOB"}

ArgValues == {0, 1, 10}

\* the argument lists: up to MaxArgs values, and the six joints of the example
ArgLists ==
    UNION { [1..n -> ArgValues] : n \in 0..MaxArgs } \cup {<<10, 20, 30, 40, 50, 60>>}

ApplyBuildCommand ==
    \E cmd \in CommandNames, arg_list \in ArgLists :
        /\ call' = [op |-> "build_command", cmd |-> cmd, arg_list |-> arg_list,
                    out |-> build_command(cmd, arg_list)]
        /\ UNCHANGED <<recvVars, logVars, sent, last>>

\* a status payload: the decimal digits of the fields with commas between
StatusPayloadOf(fields) ==
    [i \in 1..(2 * Len(fields) - 1) |->
        IF i % 2 = 1 THEN ToString(fields[(i + 1) \div 2]) ELSE ","]

\* the status tuples the peer can report: seven fields, and one field short
StatusTuples == [1..StatusFields -> {0, 1}] \cup {<<1, 1, 0, 0, 1, 0>>}

ApplyStatusDecode ==
    \E fields \in StatusTuples :
        /\ call' = [op |-> "status_decode", fields |-> fields,
                    payload |-> StatusPayloadOf(fields),
                    out |-> set_status_robot_from_messages(
                                c2007, <<Frame(<<c2007, StatusPayloadOf(fields)>>)>>)]
        /\ UNCHANGED <<recvVars, logVars, sent, last>>

NextParsing == ApplyBuildCommand \/ ApplyStatusDecode

SpecParsing == InitAll /\ [][NextParsing]_vars

-----------------------------------------------------------------------------
(* Framing: what the peer wrote against what the receiver holds *)

\* the number of bytes the receiver has read from the socket
Rcvd == Len(Join(written)) - Len(wire) - Len(sock)

RECURSIVE CompleteUpTo(_, _)
\* the frames of fs whose terminator lies within the first n bytes
CompleteUpTo(fs, n) ==
    IF fs = <<>> \/ Len(Head(fs)) + 1 > n THEN <<>>
    ELSE <<Head(fs)>> \o CompleteUpTo(Tail(fs), n - Len(Head(fs)) - 1)

Complete == CompleteUpTo(written, Rcvd)

\* the bytes read after the last terminator read
Partial == SubSeq(Join(written), Len(Join(Complete)) + 1, Rcvd)

(* C1 (as amended): while the connection is open, after every read the
   frames that entered the queue are the frames the peer wrote, in order, none
   lost and none twice, whatever the chunks; the trailing partial frame is in
   the buffer; and the frames get_last_messages returned are those frames as
   long as no call found more queued frames than it was asked for. *)
C1_FramingRoundTrip ==
    ~closed =>
        /\ Len(Complete) >= taken
        /\ messages = SubSeq(Complete, taken + 1, Len(Complete))
        /\ buffer = Partial
        /\ (~overflowed => returned = SubSeq(Complete, 1, taken))

\* a frame was returned, and the first bytes of the next one wait in the buffer
C1_Witness ==
    /\ ~closed /\ ~overflowed
    /\ Len(written) = 2 /\ Len(returned) = 1 /\ buffer # <<>> /\ wire # <<>>

(* C1 (as stated): the decoded frames, returned or still queued, are always the
   frames the peer wrote, with no loss. *)
C1_Original ==
    ~closed =>
        /\ returned \o messages = Complete
        /\ buffer = Partial

(* C10: the readiness wait has three regimes: no timeout blocks until the
   socket is readable, a timeout of 0 is a poll that never blocks, and a
   timeout t > 0 is a wait the expiry of t ends. *)
C10_WaitRegimes ==
    /\ (waitT = 0 => waiting = "no")
    /\ (waitT = NoneT => waiting \in {"no", "forever"})
    /\ (waitT > 0 => waiting \in {"no", "bounded"})

-----------------------------------------------------------------------------
(* The log *)

Ids(lg) == { lg[i].id : i \in 1..Len(lg) }

\* the event of lg with the given code that was appended last
MostRecent(lg, code) ==
    CHOOSE m \in { lg[i] : i \in 1..Len(lg) } :
        m.code = code /\ \A i \in 1..Len(lg) : lg[i].code = code => lg[i].id <= m.id

(* C2: get_last_code_occurance(code) without delete_others returns the event
   with that code that was appended last among those in the log, None when
   there is none, and takes exactly that event out of the log: every other
   event stays. *)
C2_LastOccurrence ==
    (last.op = "get_last_code_occurance" /\ ~last.purge) =>
        IF \E i \in 1..Len(last.before) : last.before[i].code = last.code
        THEN /\ last.res # None
             /\ SameTuple(last.res, MostRecent(last.before, last.code))
             /\ Len(log) = Len(last.before) - 1
             /\ \E k \in 1..Len(last.before) :
                    /\ SameTuple(last.before[k], last.res)
                    /\ Ids(log) = Ids(last.before) \ {last.before[k].id}
        ELSE last.res = None /\ log = last.before

(* C3: the events in the log are in the order in which they were appended,
   oldest first, after any sequence of log operations: no event stands before
   a different event that was appended earlier. *)
C3_InsertionOrder ==
    \A i \in 1..Len(log) : \A j \in 1..Len(log) :
        i < j => (log[i].id < log[j].id \/ SameTuple(log[i], log[j]))

(* C4: the generic error check raises when the log holds an event whose code
   begins with 1. *)
C4_GenericError ==
    (last.op = "handle_errors"
        /\ \E i \in 1..Len(last.before) : IsErrorClass(last.before[i].code))
    => last.fault = "GenericError"

-----------------------------------------------------------------------------
(* The dispatch *)

Range(q) == { q[i] : i \in 1..Len(q) }

CodesIn(ts) == { ts[i][1] : i \in 1..Len(ts) }

\* the codes a dispatch clears from the log before it transmits
Cleared(cfg) == Range(cfg.codes_to_remove_from_log) \cup Range(cfg.responses_code)

\* the codes of the events in the log when the first wait of the last dispatch
\* has ended: those readable at its start that it does not clear, and the
\* peer's first reply (the log of a controller in this specification is empty
\* when a dispatch starts)
AfterWait1 == (CodesIn(call.pre) \ Cleared(call.cfg)) \cup CodesIn(call.script[1])

\* the codes of the events the second wait adds
AfterWait2 == CodesIn(call.script[2])

\* a set of codes holds an error the dispatch is to detect
HasError(codes, cfg) ==
    \/ codes \cap Range(cfg.errors_code) # {}
    \/ cfg.handle_all_errors /\ \E c \in codes : IsErrorClass(c)

HasResponse(codes, cfg) == codes \cap Range(cfg.responses_code) # {}

Dispatched == call.op = "send_command_handled" /\ ~closed

(* C5: a dispatch with the specific error code 1013 and generic checking on,
   whose log holds 1013 and another error-class code after the wait, raises
   the specific error fault citing 1013. *)
C5_ErrorPrecedence ==
    (Dispatched
        /\ c1013 \in Range(call.cfg.errors_code) /\ call.cfg.handle_all_errors
        /\ c1013 \in AfterWait1
        /\ \E c \in AfterWait1 : IsErrorClass(c) /\ c # c1013)
    => (call.fault = "SpecificError" /\ call.res.code = c1013)

(* C6: when no requested response code and no error is in the log after the
   first wait and a response arrives before the second wait ends, without an
   error, the dispatch returns that event after exactly one retry. *)
C6_RetryOnce ==
    (Dispatched
        /\ ~HasError(AfterWait1, call.cfg) /\ ~HasResponse(AfterWait1, call.cfg)
        /\ ~HasError(AfterWait2, call.cfg) /\ HasResponse(AfterWait2, call.cfg))
    => (call.fault = "none" /\ call.rounds = 2
            /\ call.res.code \in Range(call.cfg.responses_code))

(* C7: when response codes are requested and neither an error nor a response
   appears in the first wait or in the retry, the dispatch ends with the
   response-not-found fault after exactly two wait/check rounds. *)
C7_NotFoundAfterTwoRounds ==
    (Dispatched /\ call.cfg.responses_code # <<>>
        /\ ~HasError(AfterWait1, call.cfg) /\ ~HasResponse(AfterWait1, call.cfg)
        /\ ~HasError(AfterWait2, call.cfg) /\ ~HasResponse(AfterWait2, call.cfg))
    => (call.fault = "ResponseNotFound" /\ call.rounds = 2)

(* C8: a dispatch that starts with an event of a cleared code readable on the
   socket removes it and transmits the command, and an event it returns is one
   the peer sent after the transmission. *)
C8_NoStaleResult ==
    (Dispatched /\ CodesIn(call.pre) \cap Cleared(call.cfg) # {})
    => /\ call.nsent = 1
       /\ (call.fault = "none" /\ call.res \notin {None, EmptyList})
            => <<call.res.code, call.res.payload>>
                   \in Range(call.script[1]) \cup Range(call.script[2])

(* C9: when the log holds, after a wait, an error the dispatch is to detect
   together with a requested response code, the dispatch raises the error
   fault and returns no response. *)
C9_NoErrorSuppression ==
    (Dispatched
        /\ \/ HasError(AfterWait1, call.cfg) /\ HasResponse(AfterWait1, call.cfg)
           \/ /\ ~HasError(AfterWait1, call.cfg) /\ ~HasResponse(AfterWait1, call.cfg)
              /\ HasError(AfterWait2, call.cfg) /\ HasResponse(AfterWait2, call.cfg))
    => call.fault \in {"SpecificError", "GenericError"}

-----------------------------------------------------------------------------
(* The log as a bounded queue *)

Min(a, b) == IF a < b THEN a ELSE b

\* the events an extend step put at the end of the log: those numbered above
\* the count of events appended before the step
Appended == SelectSeq(log', LAMBDA e : e.id > nappended)

(* C11: the log never holds more than LogSize events, and an append of b
   events leaves the most recent LogSize events of the old log followed by the
   appended ones, oldest first: what does not fit falls out at the old end. *)
C11_BoundedFifo ==
    /\ [](Len(log) <= LogSize)
    /\ [][last'.op = "extend" =>
            LET b == nappended' - nappended
                kept == Min(Len(log), LogSize - Min(b, LogSize))
            IN /\ Len(log') = Min(Len(log) + b, LogSize)
               /\ SubSeq(log', 1, kept) = SubSeq(log, Len(log) - kept + 1, Len(log))
               /\ Len(Appended) = Min(b, LogSize)
               /\ \A i \in 1..Len(Appended) :
                      /\ log'[kept + i] = Appended[i]
                      /\ Appended[i].id = nappended' - Len(Appended) + i]_vars

\* an append to a full log has pushed its oldest event out
C11_Witness ==
    /\ last.op = "extend" /\ Len(last.before) = LogSize /\ Len(log) = LogSize
    /\ log[LogSize].id = nappended
    /\ \A i \in 1..LogSize : log[i].id # last.before[1].id

(* C12: get_last_code_occurance(code, delete_others=True) returns the event
   with that code that was appended last among those in the log and takes
   every event with that code out of the log, the events of other codes
   staying; None and an unchanged log when no event has the code. *)
C12_PurgeOthers ==
    (last.op = "get_last_code_occurance" /\ last.purge) =>
        IF \E i \in 1..Len(last.before) : last.before[i].code = last.code
        THEN /\ last.res # None
             /\ SameTuple(last.res, MostRecent(last.before, last.code))
             /\ log = SelectSeq(last.before, LAMBDA e : e.code # last.code)
        ELSE last.res = None /\ log = last.before

-----------------------------------------------------------------------------
(* Decoding into the log *)

Malformed(f) == message2codepayload(f).fault # "none"

(* C13: an update_log that reads a malformed frame raises the framing fault
   (ValueError), and one that reads well-formed frames only, whatever was read
   before, appends their events to the log in order. *)
C13_MalformedRejected ==
    (call.op = "update_log" /\ ~closed /\ call.pre # <<>>) =>
        IF \E i \in 1..Len(call.pre) : Malformed(call.pre[i])
        THEN call.fault = "ValueError"
        ELSE /\ call.fault = "none"
             /\ Len(log) >= Len(call.pre)
             /\ \A i \in 1..Len(call.pre) :
                    TupleOf(call.pre[i]) =
                        <<log[Len(log) - Len(call.pre) + i].code,
                          log[Len(log) - Len(call.pre) + i].payload>>

-----------------------------------------------------------------------------
(* Commands end to end *)

(* C14: ActivateRobot against a peer that has sent [1005][] before the call
   and sends [2001][] once the command is out returns the 2001 event and
   raises nothing. *)
C14_ActivateEndToEnd ==
    (Dispatched /\ call.cfg.cmd = "ActivateRobot"
        /\ CodesIn(call.pre) = {c1005} /\ CodesIn(call.script[1]) = {c2001})
    => (call.fault = "none" /\ call.res.code = c2001)

-----------------------------------------------------------------------------
(* Telemetry *)

\* the payload of the chronologically newest frame of the window with the
\* code; the window is in the order the frames arrived
Newest(window, code) ==
    LET I == { i \in 1..Len(window) : TupleOf(window[i])[1] = code }
    IN IF I = {} THEN Absent
       ELSE Present(TupleOf(window[CHOOSE i \in I : \A j \in I : j <= i])[2])

\* the value a quantity takes from the newest frame with its code
NewestValue(window, code) ==
    LET n == Newest(window, code)
    IN IF ~n.has \/ n.val = <<>> THEN Absent
       ELSE [has |-> TRUE, val |-> payload2tuple(n.val).val]

Polled == call.op = "get_data" /\ call.r.fault = "none"

(* C15: each quantity a poll returns is the value of the chronologically
   newest frame of the window that carries the quantity's code, and is absent
   when the window has no frame with that code. *)
C15_NewestFrame ==
    Polled =>
        /\ call.r.joints = NewestValue(call.out, call.fb.joints)
        /\ call.r.pose = NewestValue(call.out, call.fb.pose)
        /\ (call.fb.firmware_version_9 =>
                call.r.cart_vel = NewestValue(call.out, call.fb.cart_vel))
        /\ LET n == NewestValue(call.out, call.fb.status)
           IN /\ call.r.status.has = n.has
              /\ n.has => call.r.status.val = status_robot_list2dict(n.val).val

-----------------------------------------------------------------------------
(* Reads on a closed connection *)

Reads == {"recv", "recv_all", "get_last_messages"}

\* a step of recv, recv_all or get_last_messages
ReadStep ==
    /\ last'.op \in Reads /\ waiting = "no" /\ waiting' = "no"
    /\ UNCHANGED <<written, wire, closed>>

\* the step makes a socket.recv that returns no bytes: the peer has closed and
\* the bytes it left are used up (recv makes one socket.recv, the others read
\* until nothing is readable)
ZeroRead == closed /\ (sock = <<>> \/ last'.op # "recv")

(* C16: a read whose socket.recv returns zero bytes raises ConnectionError; a
   read on an open connection with nothing to read raises nothing, leaves the
   receiver as it was and returns nothing new; ConnectionError is raised in no
   other case. *)
C16_ZeroReadFault ==
    [][ReadStep =>
          /\ ZeroRead => last'.fault = "ConnectionError"
          /\ (~closed /\ sock = <<>>) =>
                 /\ last'.fault = "none" /\ buffer' = buffer
                 /\ (last'.op # "get_last_messages" => messages' = messages)
                 /\ (messages = <<>> => messages' = <<>> /\ returned' = returned)
          /\ last'.fault = "ConnectionError" => ZeroRead]_vars

\* a read has met the closed connection
C16_Witness == last.op \in Reads /\ last.fault = "ConnectionError" /\ closed

-----------------------------------------------------------------------------
(* Argument validation *)

\* the call's argument breaks the count or range rule of its command
Violates(c) ==
    CASE c.op = "MoveJoints" -> Len(c.arg) # 6
      [] c.op \in {"SetEOB", "SetAutoConf"} -> c.arg \notin {0, 1}
      [] c.op = "SetBlending" -> c.arg < 0 \/ c.arg > 100
      [] c.op = "SetCartAcc" -> c.arg <= 1 \/ c.arg > 100
      [] c.op = "SetMonitoringInterval" -> c.arg < 1 \/ c.arg > 1000
      [] OTHER -> FALSE

(* C17: a wrapper called with an argument that breaks its count or range rule
   raises ValueError and has transmitted nothing, read nothing and left the
   log as it was. *)
C17_ValidateBeforeIO ==
    (call.op # "none" /\ Violates(call)) =>
        (call.fault = "ValueError" /\ call.nsent = 0 /\ ~call.io)

\* a joint vector of the wrong length was refused while a frame was readable
C17_Witness ==
    /\ call.op = "MoveJoints" /\ Len(call.arg) = 7 /\ call.fault = "ValueError"
    /\ call.readable /\ sock # <<>> /\ sent = <<>>

-----------------------------------------------------------------------------
(* Per-command policies of the dispatch *)

(* C18: GetStatusRobot returns the 2007 event and raises nothing when the
   2007 reply is in the log after the wait together with error-class events. *)
C18_StatusDuringError ==
    (Dispatched /\ call.cfg.cmd = "GetStatusRobot"
        /\ c2007 \in AfterWait1 /\ \E c \in AfterWait1 : IsErrorClass(c))
    => (call.fault = "none" /\ call.res.code = c2007)

(* C19: a dispatch that requests no response codes returns the empty result
   after one wait/check round when that round finds no error. *)
C19_FireAndForget ==
    (Dispatched /\ call.cfg.responses_code = <<>> /\ ~HasError(AfterWait1, call.cfg))
    => (call.fault = "none" /\ call.res = EmptyList /\ call.rounds = 1)

-----------------------------------------------------------------------------
(* Firmware code maps *)

\* the firmware selected by the constructor flags
Selected(flags) == IF flags[1] THEN "v9" ELSE IF flags[2] THEN "v8-beta" ELSE "v7"

\* the codes of joints, pose and cartesian velocity per firmware; <<>> where
\* the firmware has no such code
CodeMap(version) ==
    CASE version = "v7" -> [joints |-> c2102, pose |-> c2103, cart_vel |-> <<>>]
      [] version = "v8-beta" -> [joints |-> c2026, pose |-> c2027, cart_vel |-> <<>>]
      [] version = "v9" -> [joints |-> c2210, pose |-> c2201, cart_vel |-> c2214]

\* the payloads, as tuples of numbers, of the frames of the window with the code
ValuesOf(window, code) ==
    { payload2tuple(TupleOf(window[i])[2]).val :
        i \in { j \in 1..Len(window) : TupleOf(window[j])[1] = code } }

\* a returned quantity comes from a frame with the code, and is absent when
\* the window has none
ReadFrom(q, window, code) ==
    IF ValuesOf(window, code) = {} THEN ~q.has
    ELSE q.has /\ q.val \in ValuesOf(window, code)

(* C20: a poll reads joints, pose and cartesian velocity from the codes of the
   firmware selected at construction and from no other, status from 2007 for
   every firmware, and returns no cartesian velocity for v7 and v8-beta. *)
C20_FirmwareCodeMap ==
    Polled =>
        LET m == CodeMap(Selected(call.flags))
        IN /\ ReadFrom(call.r.joints, call.out, m.joints)
           /\ ReadFrom(call.r.pose, call.out, m.pose)
           /\ IF ValuesOf(call.out, c2007) = {} THEN ~call.r.status.has
              ELSE /\ call.r.status.has
                   /\ \E t \in ValuesOf(call.out, c2007) :
                          call.r.status.val = status_robot_list2dict(t).val
           /\ IF m.cart_vel = <<>> THEN ~call.r.cart_vel.has
              ELSE ReadFrom(call.r.cart_vel, call.out, m.cart_vel)

\* a v8-beta poll over a window with a v9 joints frame and a v8-beta one
C20_Witness ==
    /\ Polled /\ Selected(call.flags) = "v8-beta"
    /\ call.out = <<Frame(<<c2210, <<"2">>>>), Frame(<<c2026, <<"1">>>>)>>
    /\ call.r.joints = Present(<<1>>) /\ ~call.r.pose.has /\ ~call.r.cart_vel.has

-----------------------------------------------------------------------------
(* Removal by code *)

(* C21: remove_all_code(code) takes every event with the code out of the log,
   wherever it stands and whatever its payload, and leaves the events of the
   other codes in the order they had. *)
C21_RemoveAll ==
    last.op = "remove_all_code" =>
        log = SelectSeq(last.before, LAMBDA e : e.code # last.code)

\* two events of code 2007 with different payloads, apart from each other,
\* were removed and the event between them stayed
C21_Witness ==
    /\ last.op = "remove_all_code" /\ last.code = c2007
    /\ Len(last.before) = 3 /\ Len(log) = 1
    /\ last.before[1].code = c2007 /\ last.before[3].code = c2007
    /\ last.before[1].payload # last.before[3].payload

-----------------------------------------------------------------------------
(* The observer of the log *)

\* the (code, payload) tuples of a sequence of events
TuplesOf(events) == [i \in 1..Len(events) |-> <<events[i].code, events[i].payload>>]

(* C22: an update_log that reads well-formed frames calls the observer once,
   with the events of exactly those frames in order, and the events are in
   the log, at its end, after the update. *)
C22_ObserverBatch ==
    (call.op = "update_log" /\ ~closed /\ call.pre # <<>>
        /\ \A i \in 1..Len(call.pre) : ~Malformed(call.pre[i]))
    => /\ Len(call.notified) = 1
       /\ TuplesOf(call.notified[1]) = [i \in 1..Len(call.pre) |-> TupleOf(call.pre[i])]
       /\ Len(log) >= Len(call.pre)
       /\ SubSeq(log, Len(log) - Len(call.pre) + 1, Len(log)) = call.notified[1]

-----------------------------------------------------------------------------
(* Command strings *)

(* C23: build_command gives the bare name for an empty argument list, and
   otherwise the name, an opening parenthesis, the arguments in order with one
   comma between two neighbours, and a closing parenthesis. *)
C23_BuildCommand ==
    call.op = "build_command" =>
        LET n == Len(call.arg_list)
        IN IF n = 0 THEN call.out = <<call.cmd>>
           ELSE /\ Len(call.out) = 2 * n + 2
                /\ call.out[1] = call.cmd /\ call.out[2] = "("
                /\ \A i \in 1..n : call.out[2 * i + 1] = ToString(call.arg_list[i])
                /\ \A i \in 1..(n - 1) : call.out[2 * i + 2] = ","
                /\ call.out[2 * n + 2] = ")"

\* MoveJoints(10,20,30,40,50,60)
C23_Witness ==
    /\ call.op = "build_command"
    /\ call.arg_list = <<10, 20, 30, 40, 50, 60>>
    /\ call.out = <<"MoveJoints", "(", "10", ",", "20", ",", "30", ",", "40", ",",
                    "50", ",", "60", ")">>

(* C24: a status payload of seven comma-separated values is decoded by
   position into the fields as, hs, sm, es, pm, eob, eom. *)
C24_StatusDecode ==
    (call.op = "status_decode" /\ Len(call.fields) = StatusFields) =>
        /\ call.out.fault = "none" /\ call.out.has
        /\ call.out.val = [as |-> call.fields[1], hs |-> call.fields[2],
                           sm |-> call.fields[3], es |-> call.fields[4],
                           pm |-> call.fields[5], eob |-> call.fields[6],
                           eom |-> call.fields[7]]

\* the payload 1,1,0,0,1,0,0
C24_Witness ==
    /\ call.op = "status_decode"
    /\ call.payload = <<"1", ",", "1", ",", "0", ",", "0", ",", "1", ",", "0", ",", "0">>
    /\ call.out.has
    /\ call.out.val = [as |-> 1, hs |-> 1, sm |-> 0, es |-> 0, pm |-> 1, eob |-> 0,
                       eom |-> 0]

-----------------------------------------------------------------------------
(* The course of one dispatch *)

\* the faults a dispatch classifies, "none" for a result
Classified == {"none", "SpecificError", "GenericError", "ResponseNotFound"}

(* C25: a dispatch to a peer that sends nothing once the command is out ends,
   with a result or a classified fault, and with the response-not-found fault
   when response codes were requested and what was readable at the start holds
   neither an error nor a response. *)
C25_BoundedWait ==
    (Dispatched /\ ~call.drop /\ call.script[1] = <<>> /\ call.script[2] = <<>>)
    => /\ call.fault \in Classified
       /\ (call.cfg.responses_code # <<>>
              /\ ~HasError(AfterWait1, call.cfg) /\ ~HasResponse(AfterWait1, call.cfg))
          => call.fault = "ResponseNotFound"

(* C26: a dispatch on an open connection transmits its command string and the
   NUL terminator once, whether it ends after the first check or after the
   retry, and what it has transmitted is that command. *)
C26_TransmitOnce ==
    (Dispatched /\ ~call.drop) =>
        /\ call.nsent = 1
        /\ sent # <<>> /\ sent[Len(sent)] = <<call.cfg.cmd, NUL>>

(* C28: a dispatch started on an open connection whose peer closes the
   connection once the command is out ends with the connection fault, and
   without a second round. *)
C28_FaultDuringWait ==
    (call.op = "send_command_handled" /\ call.open /\ call.drop)
    => (call.fault = "ConnectionError" /\ call.rounds < 2)

-----------------------------------------------------------------------------
(* Several response codes *)

\* the first code of the list that an event of the log carries
FirstListed(codes, events) ==
    codes[CHOOSE i \in 1..Len(codes) :
              /\ codes[i] \in CodesIn(TuplesOf(events))
              /\ \A j \in 1..(i - 1) : codes[j] \notin CodesIn(TuplesOf(events))]

(* C27: check_response over a log that holds events of several of the listed
   codes returns the most recently appended event of the first listed code
   present, takes every event with that code out of the log and leaves the
   other events, those of the other listed codes included. *)
C27_ListOrder ==
    (last.op = "check_response"
        /\ Cardinality(Range(last.code) \cap CodesIn(TuplesOf(last.before))) >= 2)
    => LET c == FirstListed(last.code, last.before)
       IN /\ last.fault = "none"
          /\ SameTuple(last.res, MostRecent(last.before, c))
          /\ log = SelectSeq(last.before, LAMBDA e : e.code # c)

-----------------------------------------------------------------------------
(* Motion commands and ResetError *)

MotionCommands == {"MoveJoints", "SetAutoConf", "SetBlending", "SetCartAcc"}

(* C29: a motion command with valid arguments on an open connection, to a
   peer that sends nothing, returns without a fault once its command is
   transmitted, and takes no event out of the log. *)
C29_MotionNoBlock ==
    (call.op \in MotionCommands /\ ~Violates(call) /\ ~closed)
    => /\ call.nsent = 1
       /\ call.fault = "none"
       /\ \A i \in 1..Len(last.before) : \E j \in 1..Len(log) : log[j] = last.before[i]

(* C30: ResetError on an open connection whose peer answers 2005 completes,
   and the log then holds no event whose code begins with 1. *)
C30_ResetClearsErrors ==
    (call.op = "ResetError" /\ ~closed /\ call.arg # <<>>)
    => /\ call.fault = "none"
       /\ \A i \in 1..Len(log) : ~IsErrorClass(log[i].code)

-----------------------------------------------------------------------------
(* The timeout of a request *)

(* C31: send_request_command hands send_command_handled the request default
   of one second when it is called with a timeout of None, and the caller's
   timeout unchanged otherwise, a timeout of 0 included. *)
C31_TimeoutPreserved ==
    call.op = "send_request_command" =>
        call.timeout = IF call.arg = NoneT THEN 1 ELSE call.arg

-----------------------------------------------------------------------------
(* The window of a telemetry poll *)

(* C32: a poll works on the frames that arrived since the poll before it, the
   newest 10 of them at most and in the order they arrived; the older ones
   are dropped from the queue, so that no later poll sees them. *)
C32_RecencyWindow ==
    (call.op = "get_data" /\ call.r.fault = "none") =>
        LET n == Len(call.pre)
            k == Min(n, FeedbackWindow)
        IN /\ call.out = SubSeq(call.pre, n - k + 1, n)
           /\ messages = <<>>

\* a poll over 11 frames kept the newest 10 and read the joints from them
C32_Witness ==
    /\ call.op = "get_data" /\ call.r.fault = "none"
    /\ Len(call.pre) = FeedbackWindow + 1 /\ Len(call.out) = FeedbackWindow
    /\ call.out[1] = call.pre[2] /\ call.out[FeedbackWindow] = call.pre[FeedbackWindow + 1]
    /\ call.fb.firmware_version_9 /\ call.r.joints.has
    /\ call.r.joints.val # payload2tuple(TupleOf(call.pre[1])[2]).val

-----------------------------------------------------------------------------
(* The buffer of the receiver *)

\* the last operation on the receiver was a read that ended with parse_buffer
Parsed == last.op \in {"recv", "recv_all", "get_last_messages"} /\ last.fault = "none"

(* C33: after a read that ended with a parse, the buffer holds no terminator,
   and the bytes read from the socket so far are the frames taken from the
   queue and the frames in the queue, each with its terminator, followed by
   the buffer: framing drops no byte and moves none. *)
C33_NoByteLost ==
    Parsed =>
        /\ \A i \in 1..Len(buffer) : buffer[i] # NUL
        /\ taken <= Len(written)
        /\ Join(SubSeq(written, 1, taken)) \o Join(messages) \o buffer
               = SubSeq(Join(written), 1, Rcvd)

\* a read in pieces left a whole frame in the queue and the start of the next
\* one in the buffer
C33_Witness ==
    /\ Parsed /\ last.op = "recv"
    /\ taken = 0 /\ Len(messages) = 1 /\ buffer # <<>> /\ Len(written) = 2

-----------------------------------------------------------------------------
(* A failed connect *)

(* C34: a connect that raises leaves the controller without a socket, so
   that the next connect makes a new connection attempt. *)
C34_FailedConnectDisconnects ==
    /\ (call.op = "connect" /\ call.fault # "none") => ~call.socket
    /\ [][(call.op = "connect" /\ call.fault # "none" /\ call'.op = "connect")
            => call'.attempted]_vars

====
